---- MODULE Spec2Model ----
(***************************************************************************)
(* goscp-server: the authenticated kSCP chat server of src/main.go          *)
(* (handleClient and the Session methods, lines 358-903).  One action per   *)
(* record dispatched by handleClient's switch, one for an accepted          *)
(* connection and one for a failed read.                                    *)
(*                                                                          *)
(* User objects live in `heap`; a *User pointer is the index of the slot.   *)
(* Slot c holds the User allocated by the JOIN handler of connection c      *)
(* (line 657): a handler can allocate again only while its previous User is *)
(* unregistered and referenced by nothing else, so one slot per connection  *)
(* is enough.  Nil is the nil pointer.                                      *)
(***************************************************************************)
EXTENDS Integers, Sequences, FiniteSets, TLC

\* ---------------------------------------------------------------- bounds
\* the connections the server accepts, and those of them that the
\* specifications with the wider alphabets use
MaxConns == 3
PairConns == 2
\* the private messages one user's queue may hold
MaxPending == 2
\* the bytes of a connection's stream
MaxStream == 4

Conns == 1..MaxConns
Usernames == {"alice", "bob"}
Passwords == {"pw1", "pw2"}
Texts == {"hi", "yo"}
Abouts == {"bio"}
Reasons == {"brb"}
Nil == 0

\* ------------------------------------------------------- program constants
joinMsg == "This server is running an experimental Go implementation of the kSCP server specification."
motdMsg == "Welcome to GoSCP!"
colorServer == "#d64161"
colorAuth == "#ffcc00"
colorInfo == "#f6de6c"

\* time.Now().Unix() converted with string(): an opaque token of the PING
PingToken == "now"

VARIABLES
  users,     \* the registry slice `users`: a sequence of *User
  heap,      \* the User objects, by pointer
  session,   \* each handler's local `session`
  pc,        \* each handler's position: "idle" (not accepted), "run", "done",
             \* and "hashing", "appending" inside an unlocked registration
  sock,      \* each connection's socket: "none", "open", "closed"
  crashed,   \* the process died of an unrecovered panic
  local,     \* what a handler holds between its unlocked steps
  rx,        \* the receive side of one connection: the bytes its peer sends,
             \* how many of them were read, and the commands dispatched
  out        \* the Socket.Write calls of the last step, in order

vars == <<users, heap, session, pc, sock, crashed, local, rx, out>>

\* ------------------------------------------------------------ data model
\* User{Username: name, About: about}, every other field at its zero value
NewUser(name, about) ==
  [Username |-> name, PasswordHash |-> "", About |-> about, Sessions |-> <<>>,
   Online |-> FALSE, Mute |-> FALSE, Admin |-> FALSE, Root |-> FALSE,
   Ghost |-> FALSE, Away |-> FALSE, PendingPMs |-> <<>>,
   AwayReason |-> "", AwayAnnounce |-> FALSE]

\* an unused slot of the heap
ZeroUser == NewUser("", "")

\* Session{Socket: c, RemoteAddr: c.RemoteAddr().String()}: the remote
\* address of a live connection identifies it
NewSession(c) ==
  [User |-> Nil, Authenticated |-> FALSE, Socket |-> c, RemoteAddr |-> c]

\* bcrypt.GenerateFromPassword / bcrypt.CompareHashAndPassword
Hash(password) == "$2a$" \o password
\* a comparison that accepts every password
VerifyAny(digest, password) == TRUE

Verify(digest, password) == digest = Hash(password)

\* ------------------------------------------------------------- sequences
RECURSIVE Flat(_)
Flat(ss) == IF ss = <<>> THEN <<>> ELSE Head(ss) \o Flat(Tail(ss))

\* the first index of a sequence of booleans that holds TRUE, 0 when none does
FirstTrue(bs) ==
  IF \E i \in 1..Len(bs) : bs[i]
  THEN CHOOSE i \in 1..Len(bs) : bs[i] /\ \A j \in 1..(i-1) : ~bs[j]
  ELSE 0

\* fmt's %v of a bool
BoolStr(b) == IF b THEN "true" ELSE "false"

\* ------------------------------------------------------------- registry
\* userExists with the digest test inverted
userExistsNoDigest(username) ==
  \E i \in 1..Len(users) :
    /\ username = heap[users[i]].Username
    /\ heap[users[i]].PasswordHash = ""
    /\ heap[users[i]].Ghost = FALSE

userExists(username) ==
  \E i \in 1..Len(users) :
    /\ username = heap[users[i]].Username
    /\ heap[users[i]].PasswordHash # ""
    /\ heap[users[i]].Ghost = FALSE

getUser(username) ==
  LET i == FirstTrue([k \in 1..Len(users) |->
                        /\ username = heap[users[k]].Username
                        /\ heap[users[k]].PasswordHash # ""
                        /\ heap[users[k]].Ghost = FALSE])
  IN IF i = 0 THEN Nil ELSE users[i]

Registered(p) == \E i \in 1..Len(users) : users[i] = p

\* ------------------------------------------------------- Session methods
\* s.Socket.Write(strings.Join(parameters, "\x01") + "\r\n"): one record
Write(s, parameters) == <<[to |-> s.Socket, rec |-> parameters]>>

\* every session of every user, in the order the two range loops visit them
AllSessions(h, us) == Flat([i \in 1..Len(us) |-> h[us[i]].Sessions])

\* BroadcastTo without the test of the remote address
BroadcastToAll(h, us, s) == AllSessions(h, us)

\* the sessions BroadcastMsg and BroadcastAction write to
BroadcastTo(h, us, s) ==
  SelectSeq(AllSessions(h, us), LAMBDA x : ~(s.RemoteAddr = x.RemoteAddr))

BroadcastMsg(h, us, s, msg) ==
  LET to == BroadcastTo(h, us, s)
  IN Flat([k \in 1..Len(to) |-> Write(to[k], <<"MSG", h[s.User].Username, msg>>)])

BroadcastAction(h, us, s, msg) ==
  LET to == BroadcastTo(h, us, s)
  IN Flat([k \in 1..Len(to) |-> Write(to[k], <<"MSG", "Announcement", msg>>)])

SendMsg(s, fromUsername, msg) == Write(s, <<"MSG", fromUsername, msg>>)

SendAuthMsg(s, msg) ==
  Write(s, <<"MSG", "[Authentication]", "[color=" \o colorAuth \o "]" \o msg \o "[/color]">>)

SendServerMsg(s, msg) ==
  Write(s, <<"MSG", "[Server]", "[color=" \o colorServer \o "]" \o msg \o "[/color]">>)

SendInfoMsg(s, msg) ==
  Write(s, <<"MSG", "[Info]", "[color=" \o colorInfo \o "]" \o msg \o "[/color]">>)

SendAnnouncementMsg(s, msg) == Write(s, <<"Msg", "Announcement", msg>>)

SendPMFrom(s, fromusername, msg) == Write(s, <<"PM", fromusername, msg>>)

Ping(s, msg) == Write(s, <<"PING", msg>>)

Pong(s, msg) == Write(s, <<"PONG", msg>>)

\* the user SendPM, SendRAW and Close stop at: the first of the registry
\* with the username
FirstNamed(h, us, username) ==
  FirstTrue([k \in 1..Len(us) |-> username = h[us[k]].Username])

\* SendPM that writes to the first session of the target only
SendPMFirstSession(h, us, s, targetUsername, msg) ==
  LET i == FirstNamed(h, us, targetUsername)
  IN IF i = 0 THEN [heap |-> h, out |-> <<>>]
     ELSE IF Len(h[us[i]].Sessions) <= 0
     THEN [heap |-> [h EXCEPT ![us[i]].PendingPMs =
                       Append(@, [User |-> s.User, Message |-> msg])],
           out |-> <<>>]
     ELSE [heap |-> h,
           out |-> Write(h[us[i]].Sessions[1], <<"PM", h[s.User].Username, msg>>)]

\* SendPM: [heap, out], the heap after it and the records it writes
SendPM(h, us, s, targetUsername, msg) ==
  LET i == FirstNamed(h, us, targetUsername)
  IN IF i = 0 THEN [heap |-> h, out |-> <<>>]
     ELSE IF Len(h[us[i]].Sessions) <= 0
     THEN [heap |-> [h EXCEPT ![us[i]].PendingPMs =
                       Append(@, [User |-> s.User, Message |-> msg])],
           out |-> <<>>]
     ELSE [heap |-> h,
           out |-> Flat([k \in 1..Len(h[us[i]].Sessions) |->
                     Write(h[us[i]].Sessions[k], <<"PM", h[s.User].Username, msg>>)])]

SendRAW(h, us, s, targetUsername, raw) ==
  LET i == FirstNamed(h, us, targetUsername)
  IN IF i = 0 THEN <<>>
     ELSE LET to == SelectSeq(h[us[i]].Sessions,
                              LAMBDA x : ~(s.RemoteAddr = x.RemoteAddr))
          IN Flat([k \in 1..Len(to) |-> Write(to[k], <<"RAW", targetUsername, raw>>)])

\* the flags and the entry of one user of the roster
ListFlags(u) ==
  "O" \o (IF u.Mute THEN "M" ELSE "") \o (IF u.Admin THEN "A" ELSE "")
      \o (IF u.Root THEN "R" ELSE "") \o (IF u.Away THEN "B" ELSE "")

ListEntry(u) == "[" \o ListFlags(u) \o "] " \o u.Username \o " - " \o u.About

\* ListedUsers that also skips the users that are away
ListedUsersNotAway(h, us) ==
  SelectSeq(us, LAMBDA p : ~h[p].Ghost /\ h[p].Online /\ ~h[p].Away)

\* the users SendList keeps, in registry order
ListedUsers(h, us) ==
  SelectSeq(us, LAMBDA p : ~h[p].Ghost /\ h[p].Online)

\* userList of SendList
UserList(h, us) ==
  LET l == ListedUsers(h, us) IN [k \in 1..Len(l) |-> ListEntry(h[l[k]])]

\* s.Write("LIST", strings.Join(userList, "\x01")): the joined entries are
\* the record's fields after the opcode; an empty list leaves one empty field
SendList(h, us, s) ==
  LET userList == UserList(h, us)
  IN Write(s, <<"LIST">> \o (IF userList = <<>> THEN <<"">> ELSE userList))

\* Close dereferences s.User inside the loop over users
ClosePanics(us, s) == s.User = Nil /\ Len(us) > 0

\* Close that marks the user away whatever sessions remain
CloseAlwaysAway(h, us, sk, s) ==
  LET i == IF s.User = Nil THEN 0 ELSE FirstNamed(h, us, h[s.User].Username)
  IN IF i = 0 THEN [heap |-> h, sock |-> sk]
     ELSE LET newSessions == SelectSeq(h[us[i]].Sessions,
                                       LAMBDA x : ~(s.RemoteAddr = x.RemoteAddr))
          IN [heap |-> [h EXCEPT ![s.User].Sessions = newSessions,
                                 ![s.User].Away = TRUE,
                                 ![s.User].AwayReason = "Offline."],
              sock |-> [sk EXCEPT ![s.Socket] = "closed"]]

\* Close: [heap, sock] after it (when it does not panic)
Close(h, us, sk, s) ==
  LET i == IF s.User = Nil THEN 0 ELSE FirstNamed(h, us, h[s.User].Username)
  IN IF i = 0 THEN [heap |-> h, sock |-> sk]
     ELSE LET newSessions == SelectSeq(h[us[i]].Sessions,
                                       LAMBDA x : ~(s.RemoteAddr = x.RemoteAddr))
              h1 == [h EXCEPT ![s.User].Sessions = newSessions]
              h2 == IF Len(newSessions) <= 0
                    THEN [h1 EXCEPT ![s.User].Away = TRUE,
                                    ![s.User].AwayReason = "Offline."]
                    ELSE h1
          IN [heap |-> h2, sock |-> [sk EXCEPT ![s.Socket] = "closed"]]

\* ------------------------------------------------------------ the records
\* the bytes "\r\n" between records and "\x01" between fields, and a byte
\* that is neither
CRLF == <<"CR", "LF">>
SOH == <<"SOH">>
Bytes == {"Q", "SOH", "CR", "LF"}

\* strings.Split(s, sep), for a separator that is not empty
RECURSIVE Split(_, _)
Split(s, sep) ==
  IF Len(s) < Len(sep) THEN <<s>>
  ELSE IF SubSeq(s, 1, Len(sep)) = sep
  THEN <<<<>>>> \o Split(SubSeq(s, Len(sep) + 1, Len(s)), sep)
  ELSE LET r == Split(Tail(s), sep)
       IN <<<<Head(s)>> \o Head(r)>> \o Tail(r)

\* cmd and args of one record
Command(record) ==
  LET packet == Split(record, SOH) IN [cmd |-> Head(packet), args |-> Tail(packet)]

\* the commands the loop over packets dispatches for the bytes of one read
Dispatched(buf) ==
  LET packets == SelectSeq(Split(buf, CRLF), LAMBDA x : x # <<>>)
  IN [i \in 1..Len(packets) |-> Command(packets[i])]

\* nothing to receive
NoStream == [stream |-> <<>>, pos |-> 0, dispatched |-> <<>>]

\* ------------------------------------------------------------------ Init
Init ==
  /\ rx = NoStream
  /\ users = <<>>
  /\ heap = [p \in Conns |-> ZeroUser]
  /\ session = [c \in Conns |-> NewSession(c)]
  /\ pc = [c \in Conns |-> "idle"]
  /\ sock = [c \in Conns |-> "none"]
  /\ crashed = FALSE
  /\ local = [c \in Conns |-> [password |-> "", users |-> <<>>]]
  /\ out = <<>>

\* a handler that can dispatch a record
Serving(c) == ~crashed /\ pc[c] = "run"

\* the record is dropped (a `continue`): nothing changes, nothing is written
Ignore == out' = <<>> /\ UNCHANGED <<rx, local, users, heap, session, pc, sock, crashed>>

\* a nil pointer is dereferenced: the panic ends the process
Panic == out' = <<>> /\ crashed' = TRUE /\ UNCHANGED <<rx, local, users, heap, session, pc, sock>>

\* the record writes w and changes nothing
Reply(w) == out' = w /\ UNCHANGED <<rx, local, users, heap, session, pc, sock, crashed>>

\* server.AcceptTCP() and the start of handleClient
Accept(c) ==
  /\ ~crashed
  /\ pc[c] = "idle"
  /\ \A d \in Conns : d < c => pc[d] # "idle"
  /\ pc' = [pc EXCEPT ![c] = "run"]
  /\ sock' = [sock EXCEPT ![c] = "open"]
  /\ session' = [session EXCEPT ![c] = NewSession(c)]
  /\ out' = <<>>
  /\ UNCHANGED <<rx, local, users, heap, crashed>>

\* ---------------------------------------------------------- the opcodes
PING(c, args) ==
  LET s == session[c] IN
  /\ Serving(c)
  /\ IF Len(args) < 1 THEN Ignore ELSE Reply(Pong(s, args[1]))

PONG(c, args) ==
  /\ Serving(c)
  /\ Ignore

JOIN(c, args) ==
  LET s == session[c] IN
  /\ Serving(c)
  /\ IF (s.User # Nil /\ heap[s.User].Online) \/ Len(args) < 1 THEN Ignore
     ELSE LET known == userExists(args[1])
              user == NewUser(args[1], IF Len(args) > 1 THEN args[2] ELSE "")
          IN /\ heap' = [heap EXCEPT ![c] = IF known THEN ZeroUser ELSE user]
             /\ session' = [session EXCEPT ![c].User =
                              IF known THEN getUser(args[1]) ELSE c]
             /\ out' = Ping(s, PingToken) \o
                       (IF known
                        THEN SendAuthMsg(s, "You must authenticate with the password attached to your username to continue. Ex: [u]/auth MyPassword[/u]")
                        ELSE SendAuthMsg(s, "You must register a password to attach to your username to continue. Ex: [u]/auth MyNewPassword[/u]"))
             /\ UNCHANGED <<rx, local, users, pc, sock, crashed>>

\* what AUTH answers when the username was registered by someone else
TakenText(username) ==
  "The username " \o username \o " is already taken. Please change your username and try again. Ex: [u]/nick MyNewUsername[/u]"

\* the flush with the queue read from its end
FlushPMsNewestFirst(h, s) ==
  LET pms == h[s.User].PendingPMs
  IN Flat([k \in 1..Len(pms) |->
       SendPMFrom(s, h[pms[Len(pms) + 1 - k].User].Username,
                  pms[Len(pms) + 1 - k].Message)])

\* lines 725-727: the pending private messages of the session's user
FlushPMs(h, s) ==
  LET pms == h[s.User].PendingPMs
  IN Flat([k \in 1..Len(pms) |->
       SendPMFrom(s, h[pms[k].User].Username, pms[k].Message)])

\* lines 715-727: the session is attached to its user and marked
\* authenticated, then the list, the banners and the pending PMs are sent.
\* h and us are the heap and the registry the branch before left, w what it
\* wrote.
Attach(c, h, us, w) ==
  LET s == session[c]
      h1 == [h EXCEPT ![s.User].Sessions = Append(@, s),
                      ![s.User].Online = TRUE,
                      ![s.User].Away = FALSE,
                      ![s.User].AwayReason = ""]
      s1 == [s EXCEPT !.Authenticated = TRUE]
  IN /\ heap' = h1
     /\ users' = us
     /\ session' = [session EXCEPT ![c] = s1]
     /\ out' = w \o SendList(h1, us, s1) \o SendAnnouncementMsg(s1, joinMsg)
                 \o SendMsg(s1, "Message of the Day", motdMsg)
                 \o FlushPMs(h1, s1)

\* bcrypt.GenerateFromPassword fails only for a password longer than bcrypt
\* accepts; the passwords here are short, so its error branches are not taken
AUTH(c, args) ==
  LET s == session[c] IN
  /\ Serving(c)
  /\ IF Len(args) < 1 THEN Ignore
     ELSE IF s.Authenticated
     THEN /\ heap' = [heap EXCEPT ![s.User].PasswordHash = Hash(args[1])]
          /\ out' = SendAuthMsg(s, "Changed your password successfully.")
          /\ UNCHANGED <<rx, local, users, session, pc, sock, crashed>>
     ELSE IF s.User = Nil THEN Panic
     ELSE IF heap[s.User].PasswordHash # ""
     THEN IF ~Verify(heap[s.User].PasswordHash, args[1])
          THEN Reply(SendAuthMsg(s, "You entered an invalid password. Please try again."))
          ELSE /\ Attach(c, heap, users,
                         SendAuthMsg(s, "Authenticated as " \o heap[s.User].Username \o " successfully."))
               /\ UNCHANGED <<rx, local, pc, sock, crashed>>
     ELSE IF userExists(heap[s.User].Username)
     THEN Reply(SendAuthMsg(s, TakenText(heap[s.User].Username)))
     ELSE LET h1 == [heap EXCEPT ![s.User].PasswordHash = Hash(args[1])]
              us1 == Append(users, s.User)
          IN /\ Attach(c, h1, us1,
                       SendAuthMsg(s, "Registered your username with your chosen password successfully.")
                       \o BroadcastAction(h1, us1, s, h1[s.User].Username \o " has joined the server!"))
             /\ UNCHANGED <<rx, local, pc, sock, crashed>>

\* case "QUIT": session.Close(); the break leaves the switch, not the loop
QUIT(c, args) ==
  LET s == session[c] IN
  /\ Serving(c)
  /\ IF ClosePanics(users, s) THEN Panic
     ELSE LET r == Close(heap, users, sock, s)
          IN /\ heap' = r.heap
             /\ sock' = r.sock
             /\ out' = <<>>
             /\ UNCHANGED <<rx, local, users, session, pc, crashed>>

\* MSG without the test of the asserted username
MSGAnyName(c, args) ==
  LET s == session[c] IN
  /\ Serving(c)
  /\ IF ~s.Authenticated THEN Ignore
     ELSE IF Len(args) < 2 THEN Ignore
     ELSE Reply(BroadcastMsg(heap, users, s, args[2]))

MSG(c, args) ==
  LET s == session[c] IN
  /\ Serving(c)
  /\ IF ~s.Authenticated THEN Ignore
     ELSE IF Len(args) < 2 THEN Ignore
     ELSE IF args[1] # heap[s.User].Username THEN Ignore
     ELSE Reply(BroadcastMsg(heap, users, s, args[2]))

\* the pending queue is bounded by MaxPending: a PM that would overflow it
\* is not taken
PM(c, args) ==
  LET s == session[c] IN
  /\ Serving(c)
  /\ IF ~s.Authenticated THEN Ignore
     ELSE IF Len(args) < 2 THEN Ignore
     ELSE IF ~userExists(args[1])
     THEN Reply(SendServerMsg(s, "The user " \o args[1] \o " does not exist."))
     ELSE LET r == SendPM(heap, users, s, args[1], args[2])
          IN /\ \A p \in Conns : Len(r.heap[p].PendingPMs) <= MaxPending
             /\ heap' = r.heap
             /\ out' = r.out
             /\ UNCHANGED <<rx, local, users, session, pc, sock, crashed>>

LIST(c, args) ==
  LET s == session[c] IN
  /\ Serving(c)
  /\ IF ~s.Authenticated THEN Ignore ELSE Reply(SendList(heap, users, s))

NAME(c, args) ==
  LET s == session[c] IN
  /\ Serving(c)
  /\ IF Len(args) < 2 THEN Ignore
     ELSE IF s.User = Nil THEN Panic
     ELSE IF heap[s.User].Username # args[1] THEN Ignore
     ELSE IF userExists(args[2])
     THEN IF s.Authenticated
          THEN Reply(SendServerMsg(s, "The username " \o args[1] \o " is already taken."))
          ELSE Reply(SendAuthMsg(s, "The username " \o args[1] \o " is already taken."))
     ELSE LET h1 == [heap EXCEPT ![s.User].Username = args[2]]
              text == args[1] \o " is now known as " \o args[2] \o "."
          IN /\ heap' = h1
             /\ out' = IF s.Authenticated
                       THEN BroadcastAction(h1, users, s, text) \o SendList(h1, users, s)
                       ELSE SendAnnouncementMsg(s, text)
             /\ UNCHANGED <<rx, local, users, session, pc, sock, crashed>>

\* fmt.Sprintf of the status block; "%%" in the format prints one "%"
UserInfo(u) ==
  "Info for user " \o u.Username \o ":%n%Online: " \o BoolStr(u.Online)
    \o "%n%Away: " \o BoolStr(u.Away) \o "%n%"
    \o (IF u.AwayReason # "" THEN "Away reason: " \o u.AwayReason \o "%n%" ELSE "")
    \o "Muted: " \o BoolStr(u.Mute) \o "%n%Admin: " \o BoolStr(u.Admin)
    \o "%n%Root: " \o BoolStr(u.Root) \o "%n%"

INFO(c, args) ==
  LET s == session[c] IN
  /\ Serving(c)
  /\ IF s.User = Nil THEN Panic
     ELSE IF ~heap[s.User].Online THEN Ignore
     ELSE IF Len(args) < 1 THEN Ignore
     ELSE IF ~userExists(args[1])
     THEN Reply(SendServerMsg(s, "The user " \o args[1] \o " does not exist."))
     ELSE Reply(SendInfoMsg(s, UserInfo(heap[getUser(args[1])])))

RAW(c, args) ==
  LET s == session[c] IN
  /\ Serving(c)
  /\ IF s.User = Nil THEN Panic
     ELSE IF ~heap[s.User].Online THEN Ignore
     ELSE IF Len(args) < 2 THEN Ignore
     ELSE IF ~userExists(args[1])
     THEN Reply(SendServerMsg(s, "The user " \o args[1] \o " does not exist."))
     ELSE Reply(SendRAW(heap, users, s, args[1], args[2]))

AWAY(c, args) ==
  LET s == session[c] IN
  /\ Serving(c)
  /\ IF s.User = Nil THEN Panic
     ELSE IF ~heap[s.User].Online THEN Ignore
     ELSE LET u == heap[s.User]
              name == u.Username
              announce == Len(args) > 1 /\ args[2] = "1"
              h1 == IF u.Away
                    THEN [heap EXCEPT ![s.User].Away = FALSE,
                                      ![s.User].AwayAnnounce = FALSE,
                                      ![s.User].AwayReason = ""]
                    ELSE IF Len(args) > 0
                    THEN [heap EXCEPT ![s.User].Away = TRUE,
                                      ![s.User].AwayReason = args[1],
                                      ![s.User].AwayAnnounce = (@ \/ announce)]
                    ELSE [heap EXCEPT ![s.User].Away = TRUE]
              \* the broadcasts read the heap as it is when they are made
              hb == [heap EXCEPT ![s.User].Away = ~u.Away]
              w == IF u.Away
                   THEN SendInfoMsg(s, "You are no longer marked as away.")
                        \o (IF u.AwayAnnounce
                            THEN BroadcastAction(hb, users, s, name \o " is no longer marked as away.")
                            ELSE <<>>)
                   ELSE IF Len(args) > 0
                   THEN SendInfoMsg(s, "You are now marked as away. Reason: " \o args[1])
                        \o (IF announce
                            THEN BroadcastAction(hb, users, s, name \o " is now marked as away. Reason: " \o args[1])
                            ELSE <<>>)
                   ELSE SendInfoMsg(s, "You are now marked as away.")
          IN /\ heap' = h1
             /\ out' = w \o SendList(h1, users, s)
             /\ UNCHANGED <<rx, local, users, session, pc, sock, crashed>>

\* default: an opcode the switch does not know
Unsupported(c, cmd) ==
  LET s == session[c] IN
  /\ Serving(c)
  /\ Reply(SendServerMsg(s, "Server does not support opcode [b]" \o cmd \o "[/b]."))

\* c.Read fails (the peer is gone, or the socket was closed by a QUIT):
\* session.Close() and the handler returns; its session and an unregistered
\* User it allocated are unreachable from then on
ReadFail(c) ==
  LET s == session[c] IN
  /\ Serving(c)
  /\ IF ClosePanics(users, s) THEN Panic
     ELSE LET r == Close(heap, users, sock, s)
          IN /\ heap' = [r.heap EXCEPT ![c] = IF Registered(c) THEN @ ELSE ZeroUser]
             /\ sock' = r.sock
             /\ pc' = [pc EXCEPT ![c] = "done"]
             /\ session' = [session EXCEPT ![c] = NewSession(c)]
             /\ out' = <<>>
             /\ UNCHANGED <<rx, local, users, crashed>>

\* ---------------------------------------------------- the records received
\* alice joins without an About, bob with one
JoinArgs == {<<>>, <<"alice">>, <<"bob", "bio">>}
AuthArgs == {<<>>} \cup {<<p>> : p \in Passwords}
MsgArgs == {<<n>> : n \in Usernames} \cup {<<n, "hi">> : n \in Usernames}
PmArgs == {<<n, t>> : n \in Usernames, t \in Texts}
NameArgs == {<<n>> : n \in Usernames} \cup {<<n, m>> : n \in Usernames, m \in Usernames}
InfoArgs == {<<>>} \cup {<<n>> : n \in Usernames}
AwayArgs == {<<>>} \cup {<<r>> : r \in Reasons} \cup {<<r, "1">> : r \in Reasons}
RawArgs == {<<n>> : n \in Usernames} \cup {<<n, "raw">> : n \in Usernames}
PingArgs == {<<>>, <<"tok">>}
UnknownOpcodes == {"FOO"}

\* Sessions, names, broadcast and roster, with two passwords
Next ==
  \E c \in 1..PairConns :
    \/ Accept(c)
    \/ ReadFail(c)
    \/ \E args \in JoinArgs : JOIN(c, args)
    \/ \E args \in AuthArgs : AUTH(c, args)
    \/ QUIT(c, <<>>)
    \/ \E args \in MsgArgs : MSG(c, args)
    \/ LIST(c, <<>>)
    \/ \E args \in NameArgs : NAME(c, args)

Spec == Init /\ [][Next]_vars

\* Away, teardown and roster
NextAway ==
  \E c \in 1..PairConns :
    \/ Accept(c)
    \/ ReadFail(c)
    \/ \E args \in JoinArgs : JOIN(c, args)
    \/ \E args \in {<<>>, <<"pw1">>} : AUTH(c, args)
    \/ QUIT(c, <<>>)
    \/ LIST(c, <<>>)
    \/ \E args \in NameArgs : NAME(c, args)
    \/ \E args \in AwayArgs : AWAY(c, args)

SpecAway == Init /\ [][NextAway]_vars

\* Private messages between three connections
NextPM ==
  \E c \in Conns :
    \/ Accept(c)
    \/ ReadFail(c)
    \/ \E args \in {<<"alice">>, <<"bob", "bio">>} : JOIN(c, args)
    \/ \E args \in {<<"pw1">>} : AUTH(c, args)
    \/ \E args \in NameArgs : NAME(c, args)
    \/ \E args \in PmArgs : PM(c, args)

SpecPM == Init /\ [][NextPM]_vars

\* Broadcast between three connections
NextFanout ==
  \E c \in Conns :
    \/ Accept(c)
    \/ ReadFail(c)
    \/ \E args \in {<<"alice">>, <<"bob", "bio">>} : JOIN(c, args)
    \/ \E args \in {<<"pw1">>} : AUTH(c, args)
    \/ QUIT(c, <<>>)
    \/ \E args \in MsgArgs : MSG(c, args)

SpecFanout == Init /\ [][NextFanout]_vars

\* Every opcode that reads the session's user, and the ones that need none
NextMisc ==
  \E c \in 1..PairConns :
    \/ Accept(c)
    \/ ReadFail(c)
    \/ \E args \in JoinArgs : JOIN(c, args)
    \/ \E args \in {<<>>, <<"pw1">>} : AUTH(c, args)
    \/ \E args \in NameArgs : NAME(c, args)
    \/ \E args \in InfoArgs : INFO(c, args)
    \/ \E args \in RawArgs : RAW(c, args)
    \/ \E args \in AwayArgs : AWAY(c, args)
    \/ \E args \in PingArgs : PING(c, args)
    \/ PONG(c, <<>>)
    \/ \E cmd \in UnknownOpcodes : Unsupported(c, cmd)

SpecMisc == Init /\ [][NextMisc]_vars

\* c.Read returns the next n bytes of the stream (l > 0), and the loop over
\* the packets of this read dispatches them; the commands are recorded
Read(n) ==
  /\ ~crashed
  /\ rx.pos + n <= Len(rx.stream)
  /\ rx' = [rx EXCEPT !.pos = @ + n,
                       !.dispatched = @ \o Dispatched(SubSeq(rx.stream, rx.pos + 1, rx.pos + n))]
  /\ UNCHANGED <<users, heap, session, pc, sock, crashed, local, out>>

\* the streams a peer may send
Streams == UNION {[1..n -> Bytes] : n \in 0..MaxStream}

InitFraming ==
  /\ rx \in {[NoStream EXCEPT !.stream = s] : s \in Streams}
  /\ users = <<>>
  /\ heap = [p \in Conns |-> ZeroUser]
  /\ session = [c \in Conns |-> NewSession(c)]
  /\ pc = [c \in Conns |-> "idle"]
  /\ sock = [c \in Conns |-> "none"]
  /\ crashed = FALSE
  /\ local = [c \in Conns |-> [password |-> "", users |-> <<>>]]
  /\ out = <<>>

NextFraming == \E n \in 1..MaxStream : Read(n)

\* One connection's reads, however its stream is cut
SpecFraming == InitFraming /\ [][NextFraming]_vars

\* The registration branch of AUTH (lines 699-713) as the steps of a handler
\* that runs beside the other handlers: no lock is held between the test of
\* userExists, the read of `users` by append and the write of its result.
Registering(c, args) ==
  /\ Len(args) >= 1
  /\ ~session[c].Authenticated
  /\ session[c].User # Nil
  /\ heap[session[c].User].PasswordHash = ""
  /\ ~userExists(heap[session[c].User].Username)

\* line 699: userExists says the username is free
AuthCheck(c, args) ==
  /\ Serving(c)
  /\ Registering(c, args)
  /\ pc' = [pc EXCEPT ![c] = "hashing"]
  /\ local' = [local EXCEPT ![c].password = args[1]]
  /\ out' = <<>>
  /\ UNCHANGED <<rx, users, heap, session, sock, crashed>>

\* lines 704-710: the digest is stored and append reads `users`
AuthLoad(c) ==
  /\ ~crashed
  /\ pc[c] = "hashing"
  /\ heap' = [heap EXCEPT ![session[c].User].PasswordHash = Hash(local[c].password)]
  /\ local' = [local EXCEPT ![c].users = users]
  /\ pc' = [pc EXCEPT ![c] = "appending"]
  /\ out' = <<>>
  /\ UNCHANGED <<rx, users, session, sock, crashed>>

\* lines 710-727: the slice append built is stored and the session attached
AuthStore(c) ==
  LET s == session[c]
      us1 == Append(local[c].users, s.User)
  IN /\ ~crashed
     /\ pc[c] = "appending"
     /\ Attach(c, heap, us1,
               SendAuthMsg(s, "Registered your username with your chosen password successfully.")
               \o BroadcastAction(heap, us1, s, heap[s.User].Username \o " has joined the server!"))
     /\ pc' = [pc EXCEPT ![c] = "run"]
     /\ local' = [local EXCEPT ![c] = [password |-> "", users |-> <<>>]]
     /\ UNCHANGED <<rx, sock, crashed>>

\* the other branches of AUTH
AuthOther(c, args) == ~Registering(c, args) /\ AUTH(c, args)

NextRace ==
  \E c \in 1..PairConns :
    \/ Accept(c)
    \/ ReadFail(c)
    \/ \E args \in JoinArgs : JOIN(c, args)
    \/ \E args \in AuthArgs : AuthOther(c, args)
    \/ \E args \in AuthArgs : AuthCheck(c, args)
    \/ AuthLoad(c)
    \/ AuthStore(c)
    \/ LIST(c, <<>>)

SpecRace == Init /\ [][NextRace]_vars

\* ------------------------------------------------------------ the claims
Registry == {users[i] : i \in 1..Len(users)}

\* some user of the registry has the username
NameTaken(username) == \E p \in Registry : heap[p].Username = username

\* session c is in the session set of user p
Attached(c, p) ==
  \E k \in 1..Len(heap[p].Sessions) : heap[p].Sessions[k].RemoteAddr = c

\* the number of records of w written to the socket of connection d
Count(w, d) == Cardinality({k \in 1..Len(w) : w[k].to = d})

UniqueUsernames ==
  \A i, j \in 1..Len(users) :
    i # j => heap[users[i]].Username # heap[users[j]].Username

\* an AUTH of c that would register a username the registry holds
AuthOnTaken(c, args) ==
  /\ Len(args) >= 1
  /\ ~session[c].Authenticated
  /\ session[c].User # Nil
  /\ heap[session[c].User].PasswordHash = ""
  /\ NameTaken(heap[session[c].User].Username)
  /\ AUTH(c, args)

\* a NAME of c, well formed, to a username the registry holds
NameOnTaken(c, args) ==
  /\ Len(args) >= 2
  /\ session[c].User # Nil
  /\ heap[session[c].User].Username = args[1]
  /\ NameTaken(args[2])
  /\ NAME(c, args)

\* C1: no two users of the registry have the same username; an AUTH that
\* would register a username the registry already holds, and a NAME to such
\* a username, change neither the registry nor any user or session
C1_UniqueRegistered ==
  /\ []UniqueUsernames
  /\ [][\A c \in Conns, args \in AuthArgs :
          AuthOnTaken(c, args) => UNCHANGED <<users, heap, session>>]_vars
  /\ [][\A c \in Conns, args \in NameArgs :
          NameOnTaken(c, args) => UNCHANGED <<users, heap, session>>]_vars

\* a registration was just rejected for a username that another user holds
C1_Witness ==
  \E c \in Conns :
    /\ session[c].User # Nil
    /\ session[c].User \notin Registry
    /\ NameTaken(heap[session[c].User].Username)
    /\ out = SendAuthMsg(session[c], TakenText(heap[session[c].User].Username))

\* C3: every session whose authenticated flag is set has a user that is
\* online and holds the session in its session set
C3_AuthenticatedIsAttached ==
  \A c \in Conns :
    (pc[c] = "run" /\ session[c].Authenticated) =>
      /\ heap[session[c].User].Online
      /\ Attached(c, session[c].User)

\* a MSG of c that passes the three tests of the handler
ValidMsg(c, args) ==
  /\ session[c].Authenticated
  /\ Len(args) >= 2
  /\ args[1] = heap[session[c].User].Username
  /\ MSG(c, args)

\* C6: a valid MSG is written exactly once to every session attached to a
\* user other than the sender's, and queues nothing
C6_BroadcastOncePerSession ==
  [][\A c \in Conns, args \in MsgArgs :
       ValidMsg(c, args) =>
         /\ \A p \in Registry \ {session[c].User} :
              \A k \in 1..Len(heap[p].Sessions) :
                Count(out', heap[p].Sessions[k].Socket) = 1
         /\ \A p \in Conns : heap'[p].PendingPMs = heap[p].PendingPMs]_vars

\* C7 as the spec states it: a valid MSG is written to no session attached
\* to the sender's own user
C7_NoneOfSendersSessions ==
  [][\A c \in Conns, args \in MsgArgs :
       ValidMsg(c, args) =>
         \A k \in 1..Len(heap[session[c].User].Sessions) :
           Count(out', heap[session[c].User].Sessions[k].Socket) = 0]_vars

\* C7, amended: a valid MSG is not written to the connection that sent it,
\* and is written to every other session attached to the sender's user
C7_OnlySenderExcluded ==
  [][\A c \in Conns, args \in MsgArgs :
       ValidMsg(c, args) =>
         /\ Count(out', c) = 0
         /\ \A k \in 1..Len(heap[session[c].User].Sessions) :
              LET x == heap[session[c].User].Sessions[k]
              IN x.RemoteAddr # c =>
                   \E j \in 1..Len(out') :
                     out'[j] = [to |-> x.Socket,
                                rec |-> <<"MSG", args[1], args[2]>>]]_vars

\* a MSG was just written to another session of the sender's own user and
\* to a session of another user, and not to the sender
C7_Witness ==
  \E p \in Registry, c, d \in Conns :
    /\ c # d
    /\ session[c].Authenticated /\ session[c].User = p
    /\ session[d].Authenticated /\ session[d].User = p
    /\ Attached(c, p) /\ Attached(d, p)
    /\ \E j \in 1..Len(out) :
         out[j] = [to |-> d, rec |-> <<"MSG", heap[p].Username, "hi">>]
    /\ Count(out, c) = 0
    /\ \E e \in Conns \ {c, d} :
         /\ session[e].Authenticated
         /\ session[e].User # p
         /\ Count(out, e) = 1

\* the LIST records of the last step
ListRecords == {k \in 1..Len(out) : out[k].rec[1] = "LIST"}

\* C9: a LIST record has no entry for a ghost or offline user and exactly one
\* entry for every other user of the registry
C9_RosterIsOnlineNonGhost ==
  \A k \in ListRecords :
    LET fields == Tail(out[k].rec)
    IN /\ \A p \in Registry :
            Cardinality({f \in 1..Len(fields) : fields[f] = ListEntry(heap[p])})
              = IF heap[p].Ghost \/ ~heap[p].Online THEN 0 ELSE 1
       /\ Len(fields) = Cardinality({p \in Registry : ~heap[p].Ghost /\ heap[p].Online})

\* a roster of two users, one of them away, was just sent
C9_Witness ==
  \E k \in ListRecords :
    /\ Len(out[k].rec) = 3
    /\ Cardinality(Registry) = 2
    /\ \E p \in Registry : heap[p].Away

\* the step is a NAME or an AUTH of session c
NameOrAuthOf(c) ==
  \/ \E args \in NameArgs : NAME(c, args)
  \/ \E args \in AuthArgs : AUTH(c, args)

\* C2: the username and the digest of a registered user change only in a
\* step of a session authenticated as that user, and a session becomes
\* authenticated on a registered user only by an AUTH whose password
\* verifies against that user's digest
C2_PasswordKeepsUsernameSafe ==
  [][/\ \A p \in Registry :
          (\/ heap'[p].Username # heap[p].Username
           \/ heap'[p].PasswordHash # heap[p].PasswordHash) =>
            \E c \in Conns : /\ session[c].Authenticated
                             /\ session[c].User = p
                             /\ NameOrAuthOf(c)
     /\ \A c \in Conns :
          (/\ ~session[c].Authenticated
           /\ session'[c].Authenticated
           /\ session[c].User \in Registry) =>
            \E args \in AuthArgs : /\ Len(args) >= 1
                                   /\ Verify(heap[session[c].User].PasswordHash, args[1])
                                   /\ AUTH(c, args)]_vars

\* the user of the registry that has the username
Holder(username) == CHOOSE p \in Registry : heap[p].Username = username

\* a PM of c, authenticated, to a registered user that has no session
PmToOffline(c, args) ==
  /\ session[c].Authenticated
  /\ Len(args) >= 2
  /\ NameTaken(args[1])
  /\ Len(heap[Holder(args[1])].Sessions) = 0
  /\ PM(c, args)

\* an AUTH of c after which c is authenticated and was not before
AuthSucceeds(c, args) ==
  /\ ~session[c].Authenticated
  /\ session'[c].Authenticated
  /\ AUTH(c, args)

PmRecords(w) == SelectSeq(w, LAMBDA x : x.rec[1] = "PM")

\* C4: a PM to a registered user without sessions writes nothing and is
\* appended to that user's queue; the AUTH that authenticates a session
\* writes to it the queue of its user, oldest first
C4_QueuedThenFlushedInOrder ==
  [][/\ \A c \in Conns, args \in PmArgs :
          PmToOffline(c, args) =>
            /\ out' = <<>>
            /\ heap'[Holder(args[1])].PendingPMs =
                 Append(heap[Holder(args[1])].PendingPMs,
                        [User |-> session[c].User, Message |-> args[2]])
     /\ \A c \in Conns, args \in AuthArgs :
          AuthSucceeds(c, args) =>
            LET q == heap[session[c].User].PendingPMs
            IN PmRecords(out') =
                 [k \in 1..Len(q) |->
                    [to |-> c,
                     rec |-> <<"PM", heap[q[k].User].Username, q[k].Message>>]]]_vars

\* an authentication just flushed "hi" then "yo", queued in that order
C4_Witness ==
  \E c \in Conns :
    /\ session[c].Authenticated
    /\ Len(heap[session[c].User].PendingPMs) = 2
    /\ heap[session[c].User].PendingPMs[1].Message = "hi"
    /\ heap[session[c].User].PendingPMs[2].Message = "yo"
    /\ Len(PmRecords(out)) = 2
    /\ \A k \in 1..2 : PmRecords(out)[k].to = c
    /\ PmRecords(out)[1].rec[3] = "hi"
    /\ PmRecords(out)[2].rec[3] = "yo"
    /\ out[1].rec[2] = "[Authentication]"

\* C5: after the flush of a successful authentication the user's queue is
\* empty
C5_QueueEmptyAfterFlush ==
  [][\A c \in Conns, args \in AuthArgs :
       AuthSucceeds(c, args) => heap'[session[c].User].PendingPMs = <<>>]_vars

\* the teardown of session c
Teardown(c) == QUIT(c, <<>>) \/ ReadFail(c)

\* C8: the teardown of a session attached to a registered user removes that
\* session only; if none remains the user is away with reason "Offline.",
\* otherwise away and the reason are unchanged
C8_LastSessionGoesAway ==
  [][\A c \in Conns :
       (/\ session[c].User # Nil
        /\ session[c].User \in Registry
        /\ Attached(c, session[c].User)
        /\ Teardown(c)) =>
         LET p == session[c].User
             rest == SelectSeq(heap[p].Sessions, LAMBDA x : x.RemoteAddr # c)
         IN /\ heap'[p].Sessions = rest
            /\ IF rest = <<>>
               THEN heap'[p].Away /\ heap'[p].AwayReason = "Offline."
               ELSE /\ heap'[p].Away = heap[p].Away
                    /\ heap'[p].AwayReason = heap[p].AwayReason]_vars

\* a handler returned after its read failed and left its user, who had
\* announced an absence, without a session: the user is away, "Offline."
C8_Witness ==
  \E p \in Registry :
    /\ heap[p].Sessions = <<>>
    /\ heap[p].Away
    /\ heap[p].AwayReason = "Offline."
    /\ heap[p].AwayAnnounce
    /\ \E c \in Conns : pc[c] = "done" /\ sock[c] = "closed"

\* C10: two sessions authenticated on different users never hold the same
\* username
C10_OneOwnerPerUsername ==
  \A c, d \in Conns :
    (/\ c # d
     /\ session[c].Authenticated
     /\ session[d].Authenticated
     /\ session[c].User # session[d].User) =>
      heap[session[c].User].Username # heap[session[d].User].Username

\* C11: the teardown of a session that has no user reaches no crash and
\* leaves the registry, every user and every other session as they were
C11_TeardownWithoutUserIsLocal ==
  [][\A c \in Conns :
       (session[c].User = Nil /\ Teardown(c)) =>
         /\ ~crashed'
         /\ UNCHANGED <<users, heap>>
         /\ \A d \in Conns \ {c} :
              /\ session'[d] = session[d]
              /\ pc'[d] = pc[d]
              /\ sock'[d] = sock[d]]_vars

\* the step is an AUTH, NAME, INFO, RAW or AWAY of session c
ReadsUser(c) ==
  \/ \E args \in AuthArgs : AUTH(c, args)
  \/ \E args \in NameArgs : NAME(c, args)
  \/ \E args \in InfoArgs : INFO(c, args)
  \/ \E args \in RawArgs : RAW(c, args)
  \/ \E args \in AwayArgs : AWAY(c, args)

\* C12: an AUTH, NAME, INFO, RAW or AWAY of a session that has no user writes
\* nothing, changes nothing and reaches no crash
C12_NoUserIsIgnored ==
  [][\A c \in Conns :
       (session[c].User = Nil /\ ReadsUser(c)) =>
         /\ out' = <<>>
         /\ UNCHANGED <<users, heap, session, pc, sock, crashed>>]_vars

\* session c has a user of the registry, a digest to verify against, and is
\* not authenticated
PendingOnRegistered(c) ==
  /\ ~session[c].Authenticated
  /\ session[c].User # Nil
  /\ session[c].User \in Registry
  /\ heap[session[c].User].PasswordHash # ""

InvalidPasswordText == "You entered an invalid password. Please try again."

\* C13: an AUTH of a session pending on a registered user, with a password
\* that is not the one the digest was made of, writes the retry prompt to
\* that session and changes nothing; with the password the digest was made
\* of it authenticates the session and attaches it to the user
C13_WrongPasswordAdvancesNothing ==
  [][\A c \in Conns, args \in AuthArgs :
       (PendingOnRegistered(c) /\ Len(args) >= 1 /\ AUTH(c, args)) =>
         IF heap[session[c].User].PasswordHash # Hash(args[1])
         THEN /\ out' = SendAuthMsg(session[c], InvalidPasswordText)
              /\ UNCHANGED <<users, heap, session, pc, sock, crashed>>
         ELSE /\ session'[c].Authenticated
              /\ session'[c].User = session[c].User
              /\ Attached(c, session[c].User)'
              /\ heap'[session[c].User].Online]_vars

\* a session pending on a registered user was just refused: it holds the
\* retry prompt and is neither authenticated nor in the user's session set
C13_Witness ==
  \E c \in Conns :
    /\ PendingOnRegistered(c)
    /\ ~Attached(c, session[c].User)
    /\ heap[session[c].User].Sessions # <<>>
    /\ out = SendAuthMsg(session[c], InvalidPasswordText)

\* no session is twice in the session sets of the registry
AttachedAtMostOnce ==
  \A p, q \in Registry :
    \A k \in 1..Len(heap[p].Sessions), l \in 1..Len(heap[q].Sessions) :
      heap[p].Sessions[k].RemoteAddr = heap[q].Sessions[l].RemoteAddr
        => (p = q /\ k = l)

\* C14: an AUTH of an authenticated session changes its user's digest and
\* nothing else, and no session is ever twice in the session set of its user
\* or in the session sets of two users
C14_AttachedOnlyOnce ==
  /\ []AttachedAtMostOnce
  /\ [][\A c \in Conns, args \in AuthArgs :
          (session[c].Authenticated /\ Len(args) >= 1 /\ AUTH(c, args)) =>
            /\ heap' = [heap EXCEPT ![session[c].User].PasswordHash = Hash(args[1])]
            /\ UNCHANGED <<users, session, pc, sock, crashed>>]_vars

\* C15: a MSG is written only when its session is authenticated, it has two
\* arguments and the first is the username of the session's user; every
\* record it writes is then a MSG tagged with that username; in every other
\* case it writes nothing; in every case it changes no state
C15_MsgOnlyUnderOwnName ==
  [][\A c \in Conns, args \in MsgArgs :
       MSG(c, args) =>
         /\ UNCHANGED <<users, heap, session, pc, sock, crashed>>
         /\ IF /\ session[c].Authenticated
               /\ Len(args) >= 2
               /\ args[1] = heap[session[c].User].Username
            THEN \A k \in 1..Len(out') :
                   out'[k].rec = <<"MSG", heap[session[c].User].Username, args[2]>>
            ELSE out' = <<>>]_vars

\* a MSG of one user's session was just written to a session of another
\* user, tagged with the sender's username
C15_Witness ==
  \E c, d \in Conns :
    /\ c # d
    /\ session[c].Authenticated /\ session[d].Authenticated
    /\ session[c].User # session[d].User
    /\ sock[c] = "open" /\ sock[d] = "open"
    /\ out = <<[to |-> d, rec |-> <<"MSG", heap[session[c].User].Username, "hi">>]>>

\* a PM of c, authenticated, with a target and a text
SentPm(c, args) ==
  /\ session[c].Authenticated
  /\ Len(args) >= 2
  /\ PM(c, args)

\* C16: a PM of an authenticated session to a username the registry does not
\* hold writes one diagnostic, to the sender, and queues nothing; a PM to a
\* user that has sessions writes to each of them one PM record tagged with
\* the sender's username, writes nothing else and queues nothing
C16_PmUnknownOrDelivered ==
  [][\A c \in Conns, args \in PmArgs :
       SentPm(c, args) =>
         IF ~NameTaken(args[1])
         THEN /\ out' = SendServerMsg(session[c], "The user " \o args[1] \o " does not exist.")
              /\ UNCHANGED <<users, heap, session>>
         ELSE LET to == heap[Holder(args[1])].Sessions
              IN to # <<>> =>
                   /\ Len(out') = Len(to)
                   /\ \A k \in 1..Len(to) : Count(out', to[k].Socket) = 1
                   /\ \A j \in 1..Len(out') :
                        out'[j].rec = <<"PM", heap[session[c].User].Username, args[2]>>
                   /\ UNCHANGED <<users, heap, session>>]_vars

\* a PM was just written to the two sessions of its target, one record each
C16_Witness ==
  \E c, d, e \in Conns :
    /\ c # d /\ d # e /\ c # e
    /\ session[c].Authenticated
    /\ session[d].User # Nil
    /\ session[d].User = session[e].User
    /\ session[d].User # session[c].User
    /\ Attached(d, session[d].User) /\ Attached(e, session[d].User)
    /\ Len(out) = 2
    /\ \A x \in {d, e} :
         \E j \in 1..2 :
           out[j] = [to |-> x, rec |-> <<"PM", heap[session[c].User].Username, "yo">>]

\* the prompts of JOIN
PasswordPrompts ==
  {"You must authenticate with the password attached to your username to continue. Ex: [u]/auth MyPassword[/u]",
   "You must register a password to attach to your username to continue. Ex: [u]/auth MyNewPassword[/u]"}

\* C17: a JOIN with a username, of a session that is not authenticated,
\* leaves the session on a user of that username and writes a password
\* prompt to it; a JOIN of an authenticated session changes nothing
C17_JoinUnlessAuthenticated ==
  [][\A c \in Conns, args \in JoinArgs :
       (Len(args) >= 1 /\ JOIN(c, args)) =>
         IF session[c].Authenticated
         THEN out' = <<>> /\ UNCHANGED <<users, heap, session>>
         ELSE /\ session'[c].User # Nil
              /\ heap'[session'[c].User].Username = args[1]
              /\ \E j \in 1..Len(out'), text \in PasswordPrompts :
                   out'[j] = SendAuthMsg(session[c], text)[1]]_vars

\* C18: after a QUIT the socket of the session is closed and the session is
\* in the session set of no user
C18_QuitClosesInEveryState ==
  [][\A c \in Conns :
       QUIT(c, <<>>) =>
         /\ sock'[c] = "closed"
         /\ \A p \in Conns : ~Attached(c, p)']_vars

\* C19: a failed read takes the session out of its user's session set; if
\* the session was authenticated the step writes a record to every other
\* authenticated, attached session, and otherwise it writes nothing
C19_ReadFailAnnouncesDeparture ==
  [][\A c \in Conns :
       ReadFail(c) =>
         /\ \A p \in Registry : ~Attached(c, p)'
         /\ IF session[c].Authenticated
            THEN \A d \in Conns \ {c} :
                   (/\ session[d].Authenticated
                    /\ Attached(d, session[d].User)) => Count(out', d) >= 1
            ELSE out' = <<>>]_vars

\* the records of a stream that are terminated by "\r\n" and not empty
Records(stream) ==
  LET parts == Split(stream, CRLF)
  IN SelectSeq(SubSeq(parts, 1, Len(parts) - 1), LAMBDA x : x # <<>>)

\* the stream ends with the end of a record
Terminated(stream) ==
  Len(stream) >= 2 /\ SubSeq(stream, Len(stream) - 1, Len(stream)) = CRLF

\* C20: once a stream of whole records is read to its end, the commands
\* dispatched are its non-empty records, in order, however it was cut into
\* reads
C20_RecordsWhateverTheReads ==
  (Terminated(rx.stream) /\ rx.pos = Len(rx.stream)) =>
    rx.dispatched = [i \in 1..Len(Records(rx.stream)) |-> Command(Records(rx.stream)[i])]

\* an AWAY of c that the handler does not drop
TogglesAway(c, args) ==
  /\ session[c].User # Nil
  /\ heap[session[c].User].Online
  /\ AWAY(c, args)

\* C21: an AWAY that leaves away broadcasts the announcement exactly when the
\* announce flag is set, and an AWAY that enters away leaves the flag set
\* exactly when its second argument is "1"; the flag changes in no other
\* step, so the broadcast on leaving tells how the last entry was made
C21_AnnounceFollowsLastEntry ==
  [][\A c \in Conns, args \in AwayArgs :
       TogglesAway(c, args) =>
         LET p == session[c].User
             left == BroadcastAction(heap', users, session[c],
                                     heap[p].Username \o " is no longer marked as away.")
         IN IF heap[p].Away
            THEN /\ ~heap'[p].Away
                 /\ (\E j \in 1..Len(out') : out'[j].rec[2] = "Announcement")
                      <=> (heap[p].AwayAnnounce /\ left # <<>>)
            ELSE /\ heap'[p].Away
                 /\ heap'[p].AwayAnnounce = (Len(args) > 1 /\ args[2] = "1")]_vars

\* the step is a record of connection c: any opcode, any arguments
RecordOf(c) ==
  \/ \E args \in JoinArgs : JOIN(c, args)
  \/ \E args \in AuthArgs : AUTH(c, args)
  \/ QUIT(c, <<>>)
  \/ \E args \in MsgArgs : MSG(c, args)
  \/ \E args \in PmArgs : PM(c, args)
  \/ LIST(c, <<>>)
  \/ \E args \in NameArgs : NAME(c, args)
  \/ \E args \in InfoArgs : INFO(c, args)
  \/ \E args \in RawArgs : RAW(c, args)
  \/ \E args \in AwayArgs : AWAY(c, args)
  \/ \E args \in PingArgs : PING(c, args)
  \/ PONG(c, <<>>)
  \/ \E cmd \in UnknownOpcodes : Unsupported(c, cmd)

\* C22: a record of a session that is not authenticated, and is not
\* authenticated by it, leaves the username, the digest and the away fields
\* of every user of the registry unchanged
C22_UnauthenticatedChangesNoUser ==
  [][\A c \in Conns :
       (/\ pc[c] = "run"
        /\ ~session[c].Authenticated
        /\ ~session'[c].Authenticated
        /\ RecordOf(c)) =>
         \A p \in Registry :
           /\ heap'[p].Username = heap[p].Username
           /\ heap'[p].PasswordHash = heap[p].PasswordHash
           /\ heap'[p].Away = heap[p].Away
           /\ heap'[p].AwayReason = heap[p].AwayReason
           /\ heap'[p].AwayAnnounce = heap[p].AwayAnnounce]_vars

\* a roster, a private message, a raw record, or a MSG that a broadcast made
ForAuthenticatedOnly(rec) ==
  \/ rec[1] \in {"LIST", "PM", "RAW"}
  \/ rec[1] = "MSG" /\ rec[2] \in Usernames \cup {"Announcement"}

\* C23: a roster, a broadcast, a PM or a RAW record written in the last step
\* to a connection that is being served was written to an authenticated
\* session
C23_OnlyAuthenticatedReceive ==
  \A k \in 1..Len(out) :
    (/\ ForAuthenticatedOnly(out[k].rec)
     /\ pc[out[k].to] = "run"
     /\ sock[out[k].to] = "open") => session[out[k].to].Authenticated

\* C24: a record of a connection whose socket a QUIT has closed writes to no
\* other connection and changes no user, no session and not the registry
C24_NothingAfterQuit ==
  [][\A c \in Conns :
       (/\ pc[c] = "run"
        /\ sock[c] = "closed"
        /\ RecordOf(c)) =>
         /\ \A k \in 1..Len(out') : out'[k].to = c
         /\ UNCHANGED <<users, heap, session>>]_vars
====
